---- MODULE Spec2Model ----
(***************************************************************************)
(* Model of the Atom class of atom.py.                                     *)
(*                                                                         *)
(* An element symbol, like every string, is a sequence of one-character    *)
(* ASCII strings, so that str.lower() and float() are computed character   *)
(* by character.  float() gives the nearest double, computed exactly on    *)
(* natural numbers of any size; a double with an integral value below      *)
(* 2^31 is kept as that integer, -0.0 as 0.  dist_lat is computed on atoms *)
(* at integral coordinates and its distance is kept as its square, because *)
(* np.sqrt is strictly increasing on the integers of the model and the     *)
(* code only compares distances.  None is the empty tuple and a value v    *)
(* that may be None is the one-element tuple <<v>>.                        *)
(***************************************************************************)
EXTENDS Integers, Sequences, FiniteSets, TLC

VARIABLES atom, call

vars == <<atom, call>>

\* ------------------------------------------------------------------ bounds
\* coordinates and charges given to the constructor lie in 0..MaxCoord
MaxCoord == 1
\* components of the lattice vectors lie in 0..MaxLat
MaxLat == 2
\* number of peer atoms in a peer list
MaxPeers == 3
\* largest bond order in a row of the connectivity matrix
MaxOrder == 2
\* largest atomic number handed to num_to_elem
MaxNum == 9

\* ------------------------------------------------------------ Python values
NoneVal == <<>>

Some(v) == <<v>>

PyNum(n) == [t |-> "num", n |-> n]

PyStr(s) == [t |-> "str", s |-> s]

\* an int too large for the integers of the model: the one written with
\* the given decimal digits followed by the given number of zeros
PyInt(neg, digits, zeros) ==
    [t |-> "int", neg |-> neg, digits |-> digits, zeros |-> zeros]

PyNone == [t |-> "None"]

\* ---------------------------------------------------------------- letters
UpperCase ==
    <<"A", "B", "C", "D", "E", "F", "G", "H", "I", "J", "K", "L", "M", "N",
      "O", "P", "Q", "R", "S", "T", "U", "V", "W", "X", "Y", "Z">>

LowerCase ==
    <<"a", "b", "c", "d", "e", "f", "g", "h", "i", "j", "k", "l", "m", "n",
      "o", "p", "q", "r", "s", "t", "u", "v", "w", "x", "y", "z">>

\* str.lower() of one character; the characters of the model are ASCII
LowerChar(c) ==
    IF \E i \in 1..26 : UpperCase[i] = c
    THEN LowerCase[CHOOSE i \in 1..26 : UpperCase[i] = c]
    ELSE c

\* str.lower()
lower(s) == [i \in 1..Len(s) |-> LowerChar(s[i])]

\* ------------------------------------------------------------------- float
\* A float is one of: a float with an integral value n, -2^31 < n < 2^31;
\* any other finite double, neg and the significand mant (its decimal
\* digits, 2^52 <= mant < 2^53, or mant < 2^52 with exp = -1074) for
\* mant * 2^exp; an infinity; a nan.  Each double has one representation.
FloatInt(n) == [t |-> "float", k |-> "int", n |-> n]

FloatBin(neg, mant, exp) ==
    [t |-> "float", k |-> "bin", neg |-> neg, mant |-> mant, exp |-> exp]

FloatInf(neg) == [t |-> "float", k |-> "inf", neg |-> neg]

FloatNaN == [t |-> "float", k |-> "nan"]

Digits == {"0", "1", "2", "3", "4", "5", "6", "7", "8", "9"}

DigitChars == <<"0", "1", "2", "3", "4", "5", "6", "7", "8", "9">>

DigitVal(c) == (CHOOSE i \in 1..10 : DigitChars[i] = c) - 1

RECURSIVE DigitsVal(_)
\* value of a sequence of at most 9 decimal digits
DigitsVal(s) ==
    IF Len(s) = 0 THEN 0
    ELSE 10 * DigitsVal(SubSeq(s, 1, Len(s) - 1)) + DigitVal(s[Len(s)])

RECURSIVE Pow10(_)
Pow10(n) == IF n = 0 THEN 1 ELSE 10 * Pow10(n - 1)

Max(a, b) == IF a >= b THEN a ELSE b

Min(a, b) == IF a <= b THEN a ELSE b

Abs(n) == IF n < 0 THEN 0 - n ELSE n

\* the least int of the model, -2^31
MinInt == (0 - 2147483647) - 1

\* A natural number of any size is the sequence of its digits in base 1000,
\* the least significant first and the most significant not 0; 0 is <<>>.
Base == 1000

Limb(a, i) == IF i \in 1..Len(a) THEN a[i] ELSE 0

\* the sequence f[1], ..., f[n]
Tuple(f, n) == SubSeq(f, 1, n)

\* a without the zeros at its most significant end
Trim(a) ==
    IF \A i \in 1..Len(a) : a[i] = 0 THEN <<>>
    ELSE SubSeq(a, 1, CHOOSE i \in 1..Len(a) :
                          a[i] # 0 /\ \A j \in (i + 1)..Len(a) : a[j] = 0)

\* every column reduced below Base, its excess moved one column up
CarryPass(c) ==
    Tuple([i \in 1..(Len(c) + 1) |->
              (Limb(c, i) % Base) + (Limb(c, i - 1) \div Base)],
          Len(c) + 1)

RECURSIVE Carried(_, _)
\* c after the given number of passes
Carried(c, passes) ==
    IF passes = 0 THEN c ELSE Carried(CarryPass(c), passes - 1)

\* columns of at most Base: a carry enters column i when a column below
\* holds Base and every column between holds Base - 1
CarryIn(c, i) ==
    \E j \in 1..(i - 1) :
        c[j] = Base /\ \A m \in (j + 1)..(i - 1) : c[m] = Base - 1

Ripple(c) ==
    Tuple([i \in 1..(Len(c) + 1) |->
              (Limb(c, i) + (IF CarryIn(c, i) THEN 1 ELSE 0)) % Base],
          Len(c) + 1)

\* the number with the columns c, each below 2^31: four passes leave
\* columns of at most Base
Norm(c) == Trim(Ripple(Carried(c, 4)))

NatLess(a, b) ==
    \/ Len(a) < Len(b)
    \/ /\ Len(a) = Len(b)
       /\ \E i \in 1..Len(a) :
              a[i] < b[i] /\ \A j \in (i + 1)..Len(a) : a[j] = b[j]

Add(a, b) ==
    Norm(Tuple([i \in 1..Max(Len(a), Len(b)) |-> Limb(a, i) + Limb(b, i)],
               Max(Len(a), Len(b))))

\* a - b for b <= a: a borrow enters column i when the columns of a below
\* i hold less than those of b
Borrow(a, b, i) ==
    \E j \in 1..(i - 1) :
        Limb(a, j) < Limb(b, j)
            /\ \A m \in (j + 1)..(i - 1) : Limb(a, m) = Limb(b, m)

Sub(a, b) ==
    Trim([i \in 1..Len(a) |->
             (a[i] - Limb(b, i) - (IF Borrow(a, b, i) THEN 1 ELSE 0)) % Base])

\* a div 2
Half(a) ==
    Trim([i \in 1..Len(a) |-> (a[i] + Base * (Limb(a, i + 1) % 2)) \div 2])

RECURSIVE ColumnSum(_, _, _, _, _)
\* the sum of a[i] * b[k + 1 - i] for i in lo..hi
ColumnSum(a, b, k, lo, hi) ==
    IF lo > hi THEN 0
    ELSE IF lo = hi THEN a[lo] * b[k + 1 - lo]
    ELSE ColumnSum(a, b, k, lo, (lo + hi) \div 2)
             + ColumnSum(a, b, k, ((lo + hi) \div 2) + 1, hi)

Mul(a, b) ==
    IF Len(a) = 0 \/ Len(b) = 0 THEN <<>>
    ELSE Norm(Tuple([k \in 1..(Len(a) + Len(b) - 1) |->
                        ColumnSum(a, b, k, Max(1, k + 1 - Len(b)),
                                  Min(k, Len(a)))],
                    Len(a) + Len(b) - 1))

\* 2^j from 2^(j - 1) for an odd j, from 2^(j / 2) for an even one
Pow2From(j, p) == Mul(IF j % 2 = 1 THEN <<2>> ELSE p, p)

RECURSIVE Pow2(_)
Pow2(j) ==
    IF j = 0 THEN <<1>>
    ELSE Pow2From(j, Pow2(IF j % 2 = 1 THEN j - 1 ELSE j \div 2))

\* 10^e
TenTo(e) ==
    Tuple([i \in 1..((e \div 3) + 1) |->
              IF i = (e \div 3) + 1 THEN Pow10(e % 3) ELSE 0],
          (e \div 3) + 1)

\* the number written with the decimal digits d
NatOfDigits(d) ==
    LET digit(r) == IF r <= Len(d) THEN DigitVal(d[Len(d) + 1 - r]) ELSE 0
    IN  Trim([i \in 1..((Len(d) + 2) \div 3) |->
                 digit(3 * i - 2) + 10 * digit(3 * i - 1) + 100 * digit(3 * i)])

\* the number of decimal digits of a > 0
NumDigits(a) ==
    3 * (Len(a) - 1)
        + (IF a[Len(a)] >= 100 THEN 3 ELSE IF a[Len(a)] >= 10 THEN 2 ELSE 1)

\* the decimal digits of a > 0
DigitsOfNat(a) ==
    Tuple([p \in 1..NumDigits(a) |->
              DigitChars[((a[((NumDigits(a) - p) \div 3) + 1]
                              \div Pow10((NumDigits(a) - p) % 3)) % 10) + 1]],
          NumDigits(a))

\* the number n, 0 <= n < 2^31
NatOfInt(n) == Trim([i \in 1..4 |-> (n \div Pow10(3 * (i - 1))) % Base])

\* the value of a < 2^31
IntOfNat(a) ==
    Limb(a, 1) + Base * Limb(a, 2) + Base * Base * Limb(a, 3)
        + Base * Base * Base * Limb(a, 4)

\* high with c in column i
WithLimb(high, i, c) == [high EXCEPT ![i] = c]

RECURSIVE LargestLimb(_, _, _, _, _, _)
\* the largest c in lo..hi for which (high with c in column i) * Y <= X
LargestLimb(X, Y, high, i, lo, hi) ==
    IF lo = hi THEN lo
    ELSE IF ~NatLess(X, Mul(Trim(WithLimb(high, i, (lo + hi + 1) \div 2)), Y))
         THEN LargestLimb(X, Y, high, i, (lo + hi + 1) \div 2, hi)
         ELSE LargestLimb(X, Y, high, i, lo, ((lo + hi + 1) \div 2) - 1)

\* high with the largest c in column i for which it is at most X / Y
NextLimb(X, Y, high, i) ==
    WithLimb(high, i, LargestLimb(X, Y, high, i, 0, Base - 1))

RECURSIVE QuotientDownTo(_, _, _)
\* the columns 6..i of X div Y, zeros below
QuotientDownTo(X, Y, i) ==
    IF i = 7 THEN <<0, 0, 0, 0, 0, 0>>
    ELSE NextLimb(X, Y, QuotientDownTo(X, Y, i + 1), i)

\* X div Y for a quotient below Base^6
Quotient(X, Y) == Trim(QuotientDownTo(X, Y, 1))

\* X / Y to the nearest integer from Q2 = 2X div Y: the last bit of Q2 is
\* the half; it rounds up when a remainder follows it or X div Y is odd
RoundedHalf(X2, Y, Q2) ==
    IF Limb(Q2, 1) % 2 = 1 /\ (Limb(Q2, 1) % 4 = 3 \/ Mul(Q2, Y) # X2)
    THEN Add(Half(Q2), <<1>>)
    ELSE Half(Q2)

RoundedTwice(X2, Y) == RoundedHalf(X2, Y, Quotient(X2, Y))

\* X / Y rounded to the nearest integer, a tie to the even one
RoundedQuotient(X, Y) ==
    IF X = <<>> \/ Y = <<>> THEN <<>> ELSE RoundedTwice(Add(X, X), Y)

\* N * 2^(-e) for e < 0, M * 2^e for e >= 0
Scaled(N, M, e) == Mul(IF e < 0 THEN N ELSE M, Pow2(Abs(e)))

\* 2^e <= N / M
AtLeastPow2(N, M, e) ==
    IF e < 0 THEN ~NatLess(Scaled(N, M, e), M)
    ELSE ~NatLess(N, Scaled(N, M, e))

RECURSIVE Log2Search(_, _, _, _)
\* the largest e in lo..hi with 2^e <= N / M
Log2Search(N, M, lo, hi) ==
    IF lo = hi THEN lo
    ELSE IF AtLeastPow2(N, M, (lo + hi + 1) \div 2)
         THEN Log2Search(N, M, (lo + hi + 1) \div 2, hi)
         ELSE Log2Search(N, M, lo, ((lo + hi + 1) \div 2) - 1)

\* the bounds of the search for the integral part of log2(N / M): with t
\* the difference of the numbers of decimal digits of N and M,
\* 10^(t - 1) < N / M < 10^(t + 1), and 3.3219 < log2(10) < 3.3220
Log2Bounds(N, M, t) ==
    Log2Search(N, M,
        ((IF t >= 1 THEN 33219 ELSE 33220) * (t - 1)) \div 10000,
        ((IF t >= 0 - 1 THEN 33220 ELSE 33219) * (t + 1)) \div 10000)

\* the integral part of log2(N / M)
Log2Floor(N, M) == Log2Bounds(N, M, NumDigits(N) - NumDigits(M))

TwoTo52 == <<496, 370, 627, 599, 503, 4>>

TwoTo53 == <<992, 740, 254, 199, 7, 9>>

\* mant * 2^exp for exp in -52..-22 and q = mant div p, p = 2^(-exp): a
\* float with an integral value when p divides mant
FloatOfQuotient(neg, mant, exp, p, q) ==
    IF Mul(q, p) = mant
    THEN FloatInt((IF neg THEN 0 - 1 ELSE 1) * IntOfNat(q))
    ELSE FloatBin(neg, DigitsOfNat(mant), exp)

FloatOfSmall(neg, mant, exp, p) ==
    FloatOfQuotient(neg, mant, exp, p, Quotient(mant, p))

\* the float mant * 2^exp, mant = 0 or 2^52 <= mant < 2^53 or exp = -1074:
\* infinity from 2^1024 on
FloatOfNormal(neg, mant, exp) ==
    IF mant = <<>> THEN FloatInt(0)
    ELSE IF exp > 971 THEN FloatInf(neg)
    ELSE IF exp \in (0 - 52)..(0 - 22) /\ Limb(mant, 1) % 8 = 0
    THEN FloatOfSmall(neg, mant, exp, Pow2(0 - exp))
    ELSE FloatBin(neg, DigitsOfNat(mant), exp)

\* a significand rounded up to 2^53 is 2^52 with the next exponent
FloatOfRounded(neg, mant, exp) ==
    FloatOfNormal(neg, IF mant = TwoTo53 THEN TwoTo52 ELSE mant,
                  IF mant = TwoTo53 THEN exp + 1 ELSE exp)

\* N / M rounded to a multiple of 2^exp, s being Scaled(N, M, exp)
FloatOfScaled(neg, N, M, exp, s) ==
    FloatOfRounded(neg,
        RoundedQuotient(IF exp < 0 THEN s ELSE N, IF exp < 0 THEN M ELSE s),
        exp)

FloatAt(neg, N, M, exp) == FloatOfScaled(neg, N, M, exp, Scaled(N, M, exp))

\* the double nearest to N / M (N, M > 0), a tie to the even significand:
\* 53 significant bits, and no bit below 2^-1074
FloatOfRatio(neg, N, M) ==
    FloatAt(neg, N, M, Max(Log2Floor(N, M) - 52, 0 - 1074))

\* the ASCII characters float() strips from both ends of a string: space,
\* tab, line feed, carriage return, form feed and vertical tab (the last
\* written as the character itself)
Whitespace == {" ", "\t", "\n", "\r", "\f", ""}

\* the first position of s holding a character of chars, 0 when none does
FirstIndex(s, chars) ==
    IF \E i \in 1..Len(s) : s[i] \in chars
    THEN CHOOSE i \in 1..Len(s) :
             s[i] \in chars /\ \A j \in 1..(i - 1) : s[j] \notin chars
    ELSE 0

StripLeft(s) ==
    IF \A i \in 1..Len(s) : s[i] \in Whitespace THEN <<>>
    ELSE SubSeq(s, CHOOSE i \in 1..Len(s) :
                       s[i] \notin Whitespace
                           /\ \A j \in 1..(i - 1) : s[j] \in Whitespace,
                Len(s))

StripRight(s) ==
    IF \A i \in 1..Len(s) : s[i] \in Whitespace THEN <<>>
    ELSE SubSeq(s, 1, CHOOSE i \in 1..Len(s) :
                          s[i] \notin Whitespace
                              /\ \A j \in (i + 1)..Len(s) :
                                     s[j] \in Whitespace)

\* digits with single underscores between them
DigitPart(s) ==
    /\ Len(s) > 0
    /\ \A i \in 1..Len(s) : s[i] \in Digits \cup {"_"}
    /\ s[1] \in Digits
    /\ s[Len(s)] \in Digits
    /\ \A i \in 1..(Len(s) - 1) : ~(s[i] = "_" /\ s[i + 1] = "_")

IsDigit(c) == c \in Digits

DropLeadingZeros(s) ==
    IF \A i \in 1..Len(s) : s[i] = "0" THEN <<>>
    ELSE SubSeq(s, CHOOSE i \in 1..Len(s) :
                       s[i] # "0" /\ \A j \in 1..(i - 1) : s[j] = "0",
                Len(s))

DropTrailingZeros(s) ==
    IF \A i \in 1..Len(s) : s[i] = "0" THEN <<>>
    ELSE SubSeq(s, 1, CHOOSE i \in 1..Len(s) :
                          s[i] # "0" /\ \A j \in (i + 1)..Len(s) : s[j] = "0")

\* a parsed number: 0.d * 10^point, negated when neg, for significant
\* digits d with no zero at either end; an infinity; a nan
Decimal(neg, d, point) ==
    [ok |-> TRUE, k |-> "dec", neg |-> neg, d |-> d, point |-> point]

Infinity(neg) == [ok |-> TRUE, k |-> "inf", neg |-> neg]

NotANumber == [ok |-> TRUE, k |-> "nan"]

NoLiteral == [ok |-> FALSE]

\* d followed by the given number of zeros
WithZeros(d, zeros) ==
    Tuple([i \in 1..(Len(d) + zeros) |-> IF i <= Len(d) THEN d[i] ELSE "0"],
          Len(d) + zeros)

\* the float nearest to 0.d * 10^point, negated when neg.  From 10^309 on
\* every decimal is rounded to infinity, below 10^-324 to zero.
DecimalValue(neg, d, point) ==
    IF Len(d) = 0 THEN FloatInt(0)
    ELSE IF point >= 310 THEN FloatInf(neg)
    ELSE IF point <= 0 - 324 THEN FloatInt(0)
    ELSE IF Len(d) <= point /\ point <= 9
    THEN FloatInt((IF neg THEN 0 - 1 ELSE 1)
                      * DigitsVal(d) * Pow10(point - Len(d)))
    ELSE FloatOfRatio(neg,
             NatOfDigits(WithZeros(d, Max(point - Len(d), 0))),
             TenTo(Max(Len(d) - point, 0)))

\* the exponent digits e of a float literal as a number; an exponent of
\* more than 9 digits is taken as 10^9, which gives the same float for
\* every mantissa of fewer than 10^9 digits
ExponentValue(e) ==
    IF Len(DropLeadingZeros(e)) > 9 THEN Pow10(9)
    ELSE DigitsVal(DropLeadingZeros(e))

\* the digits before and after the point without the zeros in front,
\* scaled by the exponent
LiteralOfDigits(neg, noLead, fracLen, expVal) ==
    Decimal(neg, DropTrailingZeros(noLead), Len(noLead) - fracLen + expVal)

\* the number of a well-formed literal: the digits before and after the
\* point, scaled by the exponent
LiteralValue(neg, intDigits, fracDigits, expVal) ==
    LiteralOfDigits(neg, DropLeadingZeros(intDigits \o fracDigits),
                    Len(fracDigits), expVal)

\* a literal split into the parts before and after the point and the
\* exponent: each part present is digits with single underscores between
\* them, and there is a digit before or after the point
LiteralOfParts(neg, ip, fp, hasExp, expNeg, expBody) ==
    IF /\ ~hasExp \/ DigitPart(expBody)
       /\ Len(ip) = 0 \/ DigitPart(ip)
       /\ Len(fp) = 0 \/ DigitPart(fp)
       /\ Len(ip) > 0 \/ Len(fp) > 0
    THEN LiteralValue(neg, SelectSeq(ip, IsDigit), SelectSeq(fp, IsDigit),
             (IF expNeg THEN 0 - 1 ELSE 1)
                 * ExponentValue(SelectSeq(expBody, IsDigit)))
    ELSE NoLiteral

\* the exponent split into its sign (signed when it has one) and its digits
LiteralOfExponent(neg, ip, fp, hasExp, expo, signed) ==
    LiteralOfParts(neg, ip, fp, hasExp, signed /\ expo[1] = "-",
                   IF signed THEN Tail(expo) ELSE expo)

\* the mantissa split at its first point (dot, 0 when there is none)
LiteralOfMantissa(neg, mant, dot, hasExp, expo) ==
    LiteralOfExponent(neg,
        IF dot = 0 THEN mant ELSE SubSeq(mant, 1, dot - 1),
        IF dot = 0 THEN <<>> ELSE SubSeq(mant, dot + 1, Len(mant)),
        hasExp, expo, Len(expo) > 0 /\ expo[1] \in {"+", "-"})

\* a literal split into mantissa and exponent
LiteralOfDecimal(neg, mant, hasExp, expo) ==
    LiteralOfMantissa(neg, mant, FirstIndex(mant, {"."}), hasExp, expo)

\* an unsigned literal: inf, infinity and nan in any case, or a decimal
\* split at its first e or E (ePos, 0 when there is none)
LiteralOfUnsigned(neg, u, ePos) ==
    IF lower(u) \in {<<"i", "n", "f">>,
                     <<"i", "n", "f", "i", "n", "i", "t", "y">>}
    THEN Infinity(neg)
    ELSE IF lower(u) = <<"n", "a", "n">> THEN NotANumber
    ELSE LiteralOfDecimal(neg,
             IF ePos = 0 THEN u ELSE SubSeq(u, 1, ePos - 1),
             ePos # 0,
             IF ePos = 0 THEN <<>> ELSE SubSeq(u, ePos + 1, Len(u)))

\* the literal after its sign
LiteralOfTail(neg, u) == LiteralOfUnsigned(neg, u, FirstIndex(u, {"e", "E"}))

\* a stripped string: an optional sign, then the unsigned literal
LiteralOfSigned(signed, t) ==
    LiteralOfTail(signed /\ t[1] = "-", IF signed THEN Tail(t) ELSE t)

\* a string with the whitespace at both ends removed
LiteralOfStripped(t) == LiteralOfSigned(Len(t) > 0 /\ t[1] \in {"+", "-"}, t)

\* the number a string is read as by float(), if any
LiteralOfString(s) == LiteralOfStripped(StripRight(StripLeft(s)))

\* an int given by its digits and the number of zeros that follow them
LiteralOfDropped(neg, noLead, zeros) ==
    Decimal(neg, DropTrailingZeros(noLead), Len(noLead) + zeros)

LiteralOfInt(neg, digits, zeros) ==
    LiteralOfDropped(neg, DropLeadingZeros(digits), zeros)

\* the nearest double to an int is returned unless it is 2^1024, for which
\* float() raises OverflowError
FloatChecked(isInt, val) ==
    IF isInt /\ val.k = "inf" THEN [ok |-> FALSE, exc |-> "OverflowError"]
    ELSE [ok |-> TRUE, val |-> val]

\* float() of a string or an int read as lit: ValueError for a string that
\* is no float literal
FloatOfLiteral(isInt, lit) ==
    IF ~lit.ok THEN [ok |-> FALSE, exc |-> "ValueError"]
    ELSE IF lit.k = "inf" THEN [ok |-> TRUE, val |-> FloatInf(lit.neg)]
    ELSE IF lit.k = "nan" THEN [ok |-> TRUE, val |-> FloatNaN]
    ELSE FloatChecked(isInt, DecimalValue(lit.neg, lit.d, lit.point))

\* float(n) of an int n of the model: -2^31 is no float with a small
\* integral value
FloatOfNum(n) ==
    IF n = MinInt THEN FloatBin(TRUE, DigitsOfNat(TwoTo52), 0 - 21)
    ELSE FloatInt(n)

\* float(s) of a string s
FloatOfString(s) == FloatOfLiteral(FALSE, LiteralOfString(s))

\* float(n) of an int n given by its digits and the number of zeros that
\* follow them
FloatOfInt(neg, digits, zeros) ==
    FloatOfLiteral(TRUE, LiteralOfInt(neg, digits, zeros))

\* float(v) of the builtin: a float is kept, an int is converted (a large
\* one may raise OverflowError), a string is parsed and raises ValueError
\* when it is no float literal, None raises TypeError
float(v) ==
    IF v.t = "float" THEN [ok |-> TRUE, val |-> v]
    ELSE IF v.t = "num" THEN [ok |-> TRUE, val |-> FloatOfNum(v.n)]
    ELSE IF v.t = "int" THEN FloatOfInt(v.neg, v.digits, v.zeros)
    ELSE IF v.t = "str" THEN FloatOfString(v.s)
    ELSE [ok |-> FALSE, exc |-> "TypeError"]

\* the float nearest to A / scale + B / scale, or to their difference when
\* the signs differ
FloatOfSum(negA, A, negB, B, scale) ==
    IF negA # negB /\ A = B THEN FloatInt(0)
    ELSE FloatOfRatio(
             IF negA # negB /\ NatLess(A, B) THEN negB ELSE negA,
             IF negA = negB THEN Add(A, B)
             ELSE IF NatLess(A, B) THEN Sub(B, A)
             ELSE Sub(A, B),
             scale)

\* the magnitude of the int n, -2^31 <= n < 2^31
NatOfAbs(n) == IF n = MinInt THEN <<648, 483, 147, 2>> ELSE NatOfInt(Abs(n))

\* a finite float a is (-1)^SignOf(a) * MantOf(a) * 2^ExpOf(a)
SignOf(a) == IF a.k = "int" THEN a.n < 0 ELSE a.neg

MantOf(a) == IF a.k = "int" THEN NatOfInt(Abs(a.n)) ELSE NatOfDigits(a.mant)

ExpOf(a) == IF a.k = "int" THEN 0 ELSE a.exp

\* a + n with a = whole / scale
FloatOfShifted(neg, n, whole, scale) ==
    FloatOfSum(neg, whole, n < 0, Mul(NatOfAbs(n), scale), scale)

\* a + n with p = 2^|ExpOf(a)|
FloatOfPower(a, n, p) ==
    FloatOfShifted(SignOf(a), n,
        Mul(MantOf(a), IF ExpOf(a) < 0 THEN <<1>> ELSE p),
        IF ExpOf(a) < 0 THEN p ELSE <<1>>)

\* a.n + n lies between -2^31 and 2^31
SumIsSmall(a, n) ==
    IF n >= 0 THEN a.n <= 2147483647 - n ELSE a.n >= (0 - 2147483647) - n

\* the sum of the float a and the int n, the nearest double to a + n
FloatPlus(a, n) ==
    IF a.k = "int" /\ SumIsSmall(a, n) THEN FloatInt(a.n + n)
    ELSE IF a.k \in {"inf", "nan"} \/ n = 0 THEN a
    ELSE FloatOfPower(a, n, Pow2(Abs(ExpOf(a))))

\* a == b on floats: a nan equals nothing
FloatEq(a, b) == a = b /\ a.k # "nan"

\* ------------------------------------------------------------- constructor
\* the fields assigned before the try block
AtomDefaults(elemIn) ==
    [elem |-> elemIn, x |-> FloatInt(0), y |-> FloatInt(0), z |-> FloatInt(0),
     q |-> FloatInt(0), num |-> 1,
     connectivity |-> NoneVal, kind |-> NoneVal]

\* the conversions float(x), float(y), float(z), float(q) of the try block
Converted(args) == Tuple([i \in 1..4 |-> float(args[i])], 4)

\* the try block and its handler: the first conversion that fails ends the
\* block, ValueError is caught and reported, any other exception leaves the
\* constructor
AtomOf(elemIn, conv) ==
    LET bad == {i \in 1..4 : ~conv[i].ok}
        fail == IF bad = {} THEN 5
                ELSE CHOOSE i \in bad : \A j \in bad : i <= j
    IN  [self |-> [AtomDefaults(elemIn) EXCEPT
                       !.x = IF fail > 1 THEN conv[1].val ELSE @,
                       !.y = IF fail > 2 THEN conv[2].val ELSE @,
                       !.z = IF fail > 3 THEN conv[3].val ELSE @,
                       !.q = IF fail > 4 THEN conv[4].val ELSE @],
         exc |-> IF fail = 5 THEN "none"
                 ELSE IF conv[fail].exc = "ValueError" THEN "none"
                 ELSE conv[fail].exc]

\* Atom.__init__
Atom(elemIn, xIn, yIn, zIn, qIn, num) ==
    AtomOf(elemIn, Converted(<<xIn, yIn, zIn, qIn>>))

\* ---------------------------------------------------------------- __eq__
\* a comparison of the element symbols as written
EqCaseSensitive(self, other) ==
    /\ self.elem = other.elem
    /\ FloatEq(self.x, other.x)
    /\ FloatEq(self.y, other.y)
    /\ FloatEq(self.z, other.z)
    /\ FloatEq(self.q, other.q)

\* Atom.__eq__
eq(self, other) ==
    /\ lower(self.elem) = lower(other.elem)
    /\ FloatEq(self.x, other.x)
    /\ FloatEq(self.y, other.y)
    /\ FloatEq(self.z, other.z)
    /\ FloatEq(self.q, other.q)

\* ---------------------------------------------------------------- dist_lat
\* the square of the r computed in the loop body of dist_lat, for an atom
\* at integral coordinates
SqDist(self, x2, y2, z2) ==
    (self.x.n - x2) * (self.x.n - x2) + (self.y.n - y2) * (self.y.n - y2)
        + (self.z.n - z2) * (self.z.n - z2)

nVec == <<0, 0, 0>>

NegVec(v) == <<0 - v[1], 0 - v[2], 0 - v[3]>>

\* a set of translations without the negative vector
VecSetNoNegative(v) == <<v, nVec, v>>

\* [vector, null vector, negative vector], the order of aSet, bSet, cSet
VecSet(v) == <<v, nVec, NegVec(v)>>

\* the test "r <= rMin", with which the last minimum is kept
CloserOrEqual(r, best) == best.inf \/ r <= best.rMin

\* the test "r < rMin" of the loop body; rMin starts as float("inf")
Closer(r, best) == best.inf \/ r < best.rMin

\* the body of the three nested loops for one (trans1, trans2, trans3)
DistLatBody(best, self, x1, y1, z1, trans1, trans2, trans3) ==
    LET x2 == x1 + trans1[1] + trans2[1] + trans3[1]
        y2 == y1 + trans1[2] + trans2[2] + trans3[2]
        z2 == z1 + trans1[3] + trans2[3] + trans3[3]
        r == SqDist(self, x2, y2, z2)
    IN  IF Closer(r, best)
        THEN [inf |-> FALSE, rMin |-> r, x3 |-> x2, y3 |-> y2, z3 |-> z2]
        ELSE best

\* Atom.dist_lat; rMin is the squared distance
dist_lat(self, x1, y1, z1, aVec, bVec, cVec) ==
    LET aSet == VecSet(aVec)
        bSet == VecSet(bVec)
        cSet == VecSet(cVec)
        loop[k \in 0..27] ==
            IF k = 0 THEN [inf |-> TRUE]
            ELSE DistLatBody(loop[k - 1], self, x1, y1, z1,
                             aSet[((k - 1) \div 9) + 1],
                             bSet[(((k - 1) \div 3) % 3) + 1],
                             cSet[((k - 1) % 3) + 1])
        best == loop[27]
    IN  [self |-> self,
         ret |-> <<best.rMin, best.x3, best.y3, best.z3>>]

\* ------------------------------------------------------------- translation
\* a translation that moves the receiver and returns it
TranslatedInPlace(self, x1, y1, z1) ==
    LET moved == [self EXCEPT !.x = FloatPlus(@, x1), !.y = FloatPlus(@, y1),
                              !.z = FloatPlus(@, z1)]
    IN  [self |-> moved, ret |-> moved]

\* Atom.translated
translated(self, x1, y1, z1) ==
    LET xout == FloatPlus(self.x, x1)
        yout == FloatPlus(self.y, y1)
        zout == FloatPlus(self.z, z1)
        outAtom == Atom(self.elem, xout, yout, zout, self.q, 1).self
    IN  [self |-> self, ret |-> outAtom]

\* Atom.translate
translate(self, x1, y1, z1) ==
    [self |-> [self EXCEPT !.x = FloatPlus(@, x1), !.y = FloatPlus(@, y1),
                           !.z = FloatPlus(@, z1)],
     ret |-> NoneVal]

\* --------------------------------------------------------------- electrons
\* a lookup that returns (total, valence)
ElectronsSwapped(self) ==
    LET element == lower(self.elem)
        counts == IF element = <<"h">> THEN <<1, 1>>
                  ELSE IF element = <<"c">> THEN <<6, 4>>
                  ELSE IF element = <<"n">> THEN <<7, 5>>
                  ELSE IF element = <<"o">> THEN <<8, 6>>
                  ELSE <<0, 0>>
    IN  [self |-> self, ret |-> counts]

\* Atom.electrons
electrons(self) ==
    LET element == lower(self.elem)
        \* <<valence, total>> after the if/elif chain
        counts == IF element = <<"h">> THEN <<1, 1>>
                  ELSE IF element = <<"c">> THEN <<4, 6>>
                  ELSE IF element = <<"n">> THEN <<5, 7>>
                  ELSE IF element = <<"o">> THEN <<6, 8>>
                  ELSE <<0, 0>>
    IN  [self |-> self, ret |-> counts]

\* ------------------------------------------------------------- num_to_elem
periodic == <<<<(<<"H">>), 1>>, <<(<<"C">>), 6>>, <<(<<"N">>), 7>>,
              <<(<<"O">>), 8>>>>

RECURSIVE NumToElemLoop(_, _, _)
\* the for loop of num_to_elem from entry i of the table on
NumToElemLoop(i, self, num) ==
    IF i > Len(periodic) THEN self
    ELSE NumToElemLoop(i + 1,
                       IF num = periodic[i][2]
                       THEN [self EXCEPT !.elem = periodic[i][1]]
                       ELSE self,
                       num)

\* a lookup that also stores the atomic number
NumToElemStoresNum(self, num) ==
    [self |-> [NumToElemLoop(1, self, num) EXCEPT !.num = num],
     ret |-> NoneVal]

\* Atom.num_to_elem
num_to_elem(self, num) ==
    [self |-> NumToElemLoop(1, self, num), ret |-> NoneVal]

\* -------------------------------------------------------- set_connectivity
RECURSIVE LinksUntilZero(_, _, _)
\* a loop that ends at the first zero entry of the row
LinksUntilZero(i, in_atoms, in_row) ==
    IF i > Len(in_atoms) \/ in_row[i] = 0 THEN <<>>
    ELSE <<<<in_atoms[i].elem, in_row[i]>>>>
             \o LinksUntilZero(i + 1, in_atoms, in_row)

RECURSIVE Links(_, _, _)
\* the list links after the iterations i.. of the loop of set_connectivity
Links(i, in_atoms, in_row) ==
    IF i > Len(in_atoms) THEN <<>>
    ELSE IF in_row[i] # 0
         THEN <<<<in_atoms[i].elem, in_row[i]>>>>
                  \o Links(i + 1, in_atoms, in_row)
         ELSE Links(i + 1, in_atoms, in_row)

\* number of occurrences of link in links
Count(link, links) == Cardinality({i \in 1..Len(links) : links[i] = link})

\* frozenset(links) with every count 1
CounterOfDistinct(links) == {<<links[i], 1>> : i \in 1..Len(links)}

\* frozenset(Counter(links).most_common()): one (link, count) pair per
\* distinct link; the order of most_common() is lost in the frozenset
Counter(links) ==
    {<<links[i], Count(links[i], links)>> : i \in 1..Len(links)}

\* Atom.set_connectivity
set_connectivity(self, in_atoms, in_row) ==
    LET links == Links(1, in_atoms, in_row)
        connectivity == Counter(links)
    IN  [self |-> [self EXCEPT !.connectivity = Some(connectivity),
                               !.kind = Some(<<self.elem, connectivity>>)],
         ret |-> NoneVal]

\* ------------------------------------------------------------------ inputs
H == <<"H">>

C == <<"C">>

O == <<"O">>

Coords == 0..MaxCoord

Offsets == (0 - MaxCoord)..MaxCoord

\* an atom is moved by at most one unit along each axis in one call
UnitSteps == {0 - 1, 0, 1}

NumsIn == {PyNum(n) : n \in Coords}

\* element symbols given to the constructor
ElemsIn == {<<"H">>, <<"c">>, <<"A", "r">>}

\* texts given to the constructor in place of a number
TextsIn ==
    {<<"2">>, <<"-", "1">>, <<"a">>, <<>>, <<" ", "2">>, <<"1", "e", "0">>}

\* texts of numbers that are no integers: 0.5 is a double, 0.1 is rounded
\* to one
FractionsIn == {PyStr(<<".", "5">>), PyStr(<<"0", ".", "1">>)}

\* the int 10^400
TenTo400 == PyInt(FALSE, <<"1">>, 400)

\* values given to the constructor as a coordinate or a charge
ValuesIn ==
    NumsIn \cup {PyStr(s) : s \in TextsIn} \cup {PyNone, TenTo400}

\* Atom(elemIn) with the default coordinates and charge
NewAtom(elemIn) ==
    Atom(elemIn, PyNum(0), PyNum(0), PyNum(0), PyNum(0), 1).self

\* the atoms of a small system, as handed to set_connectivity together with
\* a row of its connectivity matrix
System == <<NewAtom(C), NewAtom(O)>>

Rows(n) == [1..n -> 0..MaxOrder]

\* peer lists of at most MaxPeers carbon and oxygen atoms
PeerLists ==
    UNION {[1..n -> {NewAtom(C), NewAtom(O)}] : n \in 0..MaxPeers}

\* components of the lattice vectors
LatVals == 0..MaxLat

\* element symbols of the atoms that are compared and queried
QueryElems ==
    {<<"H">>, <<"h">>, <<"C">>, <<"c">>, <<"N">>, <<"n">>, <<"O">>, <<"o">>,
     <<"A", "r">>, <<"H", "e">>, <<"S", "i">>}

\* an atom as constructed, or as classified by the row of the system
Classified(a, classify, row) ==
    IF classify THEN set_connectivity(a, System, row).self ELSE a

PlacedAtoms(elems) ==
    {Atom(e, x, y, z, q, 1).self :
        e \in elems, x \in NumsIn, y \in NumsIn, z \in NumsIn, q \in NumsIn}

QueryAtoms ==
    {Classified(a, b, <<1, 2>>) : a \in PlacedAtoms(QueryElems),
                                     b \in BOOLEAN}

\* texts of a coordinate or a charge that is no small integer or is not
\* written as one: nan, the infinities, 0.5 written in two ways, 0.1, and
\* 1 and 0 written as a float literal
SpecialsIn ==
    {PyStr(<<"n", "a", "n">>), PyStr(<<"i", "n", "f">>),
     PyStr(<<"-", "I", "n", "f">>), PyStr(<<".", "5">>),
     PyStr(<<"0", ".", "5", "0">>), PyStr(<<"0", ".", "1">>),
     PyStr(<<"1", "e", "0">>), PyStr(<<"-", "0">>)}

\* atoms constructed with a special as one of the four arguments
SpecialAtoms(elems) ==
    {Atom(e, IF i = 1 THEN v ELSE w, IF i = 2 THEN v ELSE w,
          IF i = 3 THEN v ELSE w, IF i = 4 THEN v ELSE w, 1).self :
        e \in elems, v \in SpecialsIn, w \in NumsIn, i \in 1..4}

\* the atoms that are compared with another atom
EqAtoms ==
    {Classified(a, b, <<1, 2>>) :
        a \in PlacedAtoms({<<"h">>, <<"C">>, <<"S", "i">>}), b \in BOOLEAN}
        \cup SpecialAtoms({<<"h">>, <<"S", "i">>})

\* the atoms an atom is compared with
OtherAtoms ==
    PlacedAtoms({<<"H">>, <<"a", "R">>, <<"s", "I">>})
        \cup SpecialAtoms({<<"H">>, <<"s", "I">>})

NoCall == [op |-> "none", exc |-> "none"]

\* ----------------------------------------------------------------- actions
\* call records the last call: its arguments, the receiver before the call
\* and the value returned
Construct(elemIn, xIn, yIn, zIn, qIn) ==
    LET r == Atom(elemIn, xIn, yIn, zIn, qIn, 1)
    IN  /\ atom' = r.self
        /\ call' = [op |-> "__init__", exc |-> r.exc, elemIn |-> elemIn,
                    xIn |-> xIn, yIn |-> yIn, zIn |-> zIn, qIn |-> qIn]

Eq(other) ==
    /\ atom' = atom
    /\ call' = [op |-> "__eq__", exc |-> "none", pre |-> atom,
                other |-> other, ret |-> eq(atom, other)]

DistLat(x1, y1, z1, aVec, bVec, cVec) ==
    LET r == dist_lat(atom, x1, y1, z1, aVec, bVec, cVec)
    IN  /\ atom' = r.self
        /\ call' = [op |-> "dist_lat", exc |-> "none", pre |-> atom,
                    x1 |-> x1, y1 |-> y1, z1 |-> z1, aVec |-> aVec,
                    bVec |-> bVec, cVec |-> cVec, ret |-> r.ret]

Translated(x1, y1, z1) ==
    LET r == translated(atom, x1, y1, z1)
    IN  /\ atom' = r.self
        /\ call' = [op |-> "translated", exc |-> "none", pre |-> atom,
                    x1 |-> x1, y1 |-> y1, z1 |-> z1, ret |-> r.ret]

Translate(x1, y1, z1) ==
    LET r == translate(atom, x1, y1, z1)
    IN  /\ atom' = r.self
        /\ call' = [op |-> "translate", exc |-> "none", pre |-> atom,
                    x1 |-> x1, y1 |-> y1, z1 |-> z1, ret |-> r.ret]

Electrons ==
    LET r == electrons(atom)
    IN  /\ atom' = r.self
        /\ call' = [op |-> "electrons", exc |-> "none", pre |-> atom,
                    ret |-> r.ret]

NumToElem(num) ==
    LET r == num_to_elem(atom, num)
    IN  /\ atom' = r.self
        /\ call' = [op |-> "num_to_elem", exc |-> "none", pre |-> atom,
                    num |-> num, ret |-> r.ret]

SetConnectivity(in_atoms, in_row) ==
    LET r == set_connectivity(atom, in_atoms, in_row)
    IN  /\ atom' = r.self
        /\ call' = [op |-> "set_connectivity", exc |-> "none", pre |-> atom,
                    in_atoms |-> in_atoms, in_row |-> in_row, ret |-> r.ret]

\* --------------------------------------------------- the life of one atom
Init ==
    /\ atom = NewAtom(H)
    /\ call = NoCall

\* a new atom at the default position
ConstructStep ==
    \E e \in ElemsIn, qIn \in NumsIn :
        Construct(e, PyNum(0), PyNum(0), PyNum(0), qIn)

\* the atom is kept inside the box Coords x Coords x Coords
TranslateStep ==
    \E x1 \in UnitSteps, y1 \in UnitSteps, z1 \in UnitSteps :
        /\ atom.x.n + x1 \in Coords
        /\ atom.y.n + y1 \in Coords
        /\ atom.z.n + z1 \in Coords
        /\ Translate(x1, y1, z1)

NumToElemStep == \E num \in 0..MaxNum : NumToElem(num)

SetConnectivityStep ==
    \E row \in Rows(Len(System)) : SetConnectivity(System, row)

Next ==
    \/ ConstructStep
    \/ TranslateStep
    \/ NumToElemStep
    \/ SetConnectivityStep

Spec == Init /\ [][Next]_vars

\* no call has been made yet
Fresh == call.op = "none"

\* -------------------------------------------------- construction on its own
InitCtor ==
    /\ atom = NewAtom(H)
    /\ call = NoCall

\* one construction from arbitrary arguments
ConstructAny ==
    /\ Fresh
    /\ \E e \in ElemsIn, xIn \in ValuesIn, yIn \in ValuesIn,
          zIn \in ValuesIn, qIn \in ValuesIn : Construct(e, xIn, yIn, zIn, qIn)

\* one construction with a fraction as one of the four arguments
ConstructFraction ==
    /\ Fresh
    /\ \E e \in ElemsIn, v \in FractionsIn, w \in NumsIn, i \in 1..4 :
           Construct(e, IF i = 1 THEN v ELSE w, IF i = 2 THEN v ELSE w,
                     IF i = 3 THEN v ELSE w, IF i = 4 THEN v ELSE w)

NextCtor ==
    \/ ConstructAny
    \/ ConstructFraction

SpecCtor == InitCtor /\ [][NextCtor]_vars

\* -------------------------------------------------- one call on some atom
InitCall ==
    /\ atom \in QueryAtoms
    /\ call = NoCall

TranslatedCall ==
    /\ Fresh
    /\ \E x1 \in Offsets, y1 \in Offsets, z1 \in Offsets :
           Translated(x1, y1, z1)

ElectronsCall == Fresh /\ Electrons

NumToElemCall == Fresh /\ NumToElemStep

NextCall ==
    \/ TranslatedCall
    \/ ElectronsCall
    \/ NumToElemCall

SpecCall == InitCall /\ [][NextCall]_vars

\* ------------------------------------------------ one comparison of atoms
InitEq ==
    /\ atom \in EqAtoms
    /\ call = NoCall

NextEq == Fresh /\ \E other \in OtherAtoms : Eq(other)

SpecEq == InitEq /\ [][NextEq]_vars

\* --------------------------------------- one periodic distance from an atom
InitDist ==
    /\ atom \in {Atom(H, x, PyNum(0), PyNum(0), PyNum(0), 1).self :
                    x \in NumsIn}
    /\ call = NoCall

\* the atom lies on the x axis, the target anywhere in the box; the
\* cell has a along x, b in the xy plane and c along z
NextDist ==
    /\ Fresh
    /\ \E x1 \in Coords, y1 \in Coords, z1 \in Coords,
          a1 \in LatVals, b1 \in LatVals, b2 \in LatVals, c3 \in LatVals :
            DistLat(x1, y1, z1, <<a1, 0, 0>>, <<b1, b2, 0>>, <<0, 0, c3>>)

SpecDist == InitDist /\ [][NextDist]_vars

\* ------------------------------------------ one classification of an atom
InitConn ==
    /\ atom \in {NewAtom(e) : e \in ElemsIn}
    /\ call = NoCall

NextConn ==
    /\ Fresh
    /\ \E in_atoms \in PeerLists :
        \E in_row \in Rows(Len(in_atoms)) : SetConnectivity(in_atoms, in_row)

SpecConn == InitConn /\ [][NextConn]_vars

\* ================================================================== claims

\* ---------------------------------------------------------------- dist_lat
Signs == {0 - 1, 0, 1}

\* the target of the recorded dist_lat call moved by sa*a + sb*b + sc*c
Shifted(sa, sb, sc) ==
    <<call.x1 + sa * call.aVec[1] + sb * call.bVec[1] + sc * call.cVec[1],
      call.y1 + sa * call.aVec[2] + sb * call.bVec[2] + sc * call.cVec[2],
      call.z1 + sa * call.aVec[3] + sb * call.bVec[3] + sc * call.cVec[3]>>

\* the 27 candidate images of the recorded call
Candidates == {Shifted(sa, sb, sc) : sa \in Signs, sb \in Signs, sc \in Signs}

\* squared distance from the receiver of the recorded call to the point p
SqDistTo(p) ==
    (call.pre.x.n - p[1]) * (call.pre.x.n - p[1])
        + (call.pre.y.n - p[2]) * (call.pre.y.n - p[2])
        + (call.pre.z.n - p[3]) * (call.pre.z.n - p[3])

ReturnedImage == <<call.ret[2], call.ret[3], call.ret[4]>>

\* C1: dist_lat returns the minimum, over the 27 points target + s_a*a +
\* s_b*b + s_c*c with each s in {+1, 0, -1}, of the (squared) distance to the
\* atom, and the returned coordinates are one of those points, at the
\* returned distance from the atom.
C1_DistLatReturnsMinimum ==
    call.op = "dist_lat" =>
        /\ \A p \in Candidates : call.ret[1] <= SqDistTo(p)
        /\ ReturnedImage \in Candidates
        /\ SqDistTo(ReturnedImage) = call.ret[1]

\* a call whose closest image is a translated point, strictly closer than
\* the target itself
C1_Witness ==
    /\ call.op = "dist_lat"
    /\ ReturnedImage # <<call.x1, call.y1, call.z1>>
    /\ call.ret[1] < SqDistTo(<<call.x1, call.y1, call.z1>>)
    /\ call.ret[1] > 0

\* the multiple of a lattice vector taken at position i = 0, 1, 2 of the
\* enumeration: +vector, null, -vector
SignAt(i) == 1 - i

\* the candidate visited k-th (k = 0..26), a outermost, then b, then c
Visited(k) == Shifted(SignAt(k \div 9), SignAt((k \div 3) % 3), SignAt(k % 3))

\* the first position of the enumeration at the minimum distance
FirstMinimum ==
    LET d == [k \in 0..26 |-> SqDistTo(Visited(k))]
    IN  CHOOSE k \in 0..26 :
            /\ \A j \in 0..26 : d[k] <= d[j]
            /\ \A j \in 0..(k - 1) : d[j] > d[k]

\* an atom at the origin, a cubic cell and a target at half its side along x
HalfCellCase ==
    /\ call.pre.x.n = 0 /\ call.pre.y.n = 0 /\ call.pre.z.n = 0
    /\ call.aVec[1] > 0
    /\ call.aVec = <<call.aVec[1], 0, 0>>
    /\ call.bVec = <<0, call.aVec[1], 0>>
    /\ call.cVec = <<0, 0, call.aVec[1]>>
    /\ 2 * call.x1 = call.aVec[1] /\ call.y1 = 0 /\ call.z1 = 0

\* C10: among candidates at the same minimum distance dist_lat returns the
\* first in the enumeration order a outermost, then b, then c, each visited
\* +vector, null, -vector; for an atom at the origin, a cubic cell of side L
\* and a target at (L/2, 0, 0) that is the untranslated target.
C10_FirstMinimumWins ==
    call.op = "dist_lat" =>
        /\ ReturnedImage = Visited(FirstMinimum)
        /\ HalfCellCase => ReturnedImage = <<call.x1, call.y1, call.z1>>

\* the half-cell case, where (-L/2, 0, 0) is as close as the target
C10_Witness ==
    /\ call.op = "dist_lat"
    /\ HalfCellCase
    /\ SqDistTo(Shifted(0 - 1, 0, 0)) = call.ret[1]
    /\ Shifted(0 - 1, 0, 0) # ReturnedImage

\* ------------------------------------------------------------------ __eq__
\* the two spellings of each letter of the element symbols
CasePairs == {{UpperCase[i], LowerCase[i]} : i \in 1..26}

SameLetter(c, d) == c = d \/ {c, d} \in CasePairs

\* the symbols s and t are equal ignoring case
SameIgnoringCase(s, t) ==
    /\ Len(s) = Len(t)
    /\ \A i \in 1..Len(s) : SameLetter(s[i], t[i])

\* a float as sign, magnitude and exponent: 0 or (-1)^negative * magnitude
\* * 2^exponent
Negative(a) == IF a.k = "int" THEN a.n < 0 ELSE a.neg

Magnitude(a) ==
    IF a.k = "int" THEN NatOfInt(Abs(a.n)) ELSE NatOfDigits(a.mant)

Exponent(a) == IF a.k = "int" THEN 0 ELSE a.exp

\* |a| < |b| for finite a and b, both brought to the exponent m
SmallerAt(a, b, m) ==
    NatLess(Mul(Magnitude(a), Pow2(Exponent(a) - m)),
            Mul(Magnitude(b), Pow2(Exponent(b) - m)))

Smaller(a, b) == SmallerAt(a, b, Min(Exponent(a), Exponent(b)))

\* a < b for finite a and b
FiniteBelow(a, b) ==
    IF a.k = "int" /\ b.k = "int" THEN a.n < b.n
    ELSE IF Negative(a) # Negative(b) THEN Negative(a)
    ELSE IF Negative(a) THEN Smaller(b, a)
    ELSE Smaller(a, b)

\* a < b for numbers a and b: minus infinity is below and plus infinity
\* above every other number
Below(a, b) ==
    IF a.k = "inf" THEN a.neg /\ ~(b.k = "inf" /\ b.neg)
    ELSE IF b.k = "inf" THEN ~b.neg
    ELSE FiniteBelow(a, b)

\* the floats a and b are the same number: both are numbers (a nan is
\* none) and neither is below the other
SameNumber(a, b) ==
    /\ a.k # "nan"
    /\ b.k # "nan"
    /\ ~Below(a, b)
    /\ ~Below(b, a)

\* the x, y, z and charge of an atom
Numbers(a) == <<a.x, a.y, a.z, a.q>>

\* C5: __eq__ returns true exactly when the element symbols are equal
\* ignoring case and x, y, z and charge are each equal; atomic number,
\* connectivity and kind play no part.
C5_EqIsElementAndNumbers ==
    call.op = "__eq__" =>
        call.ret = (/\ SameIgnoringCase(call.pre.elem, call.other.elem)
                    /\ \A i \in 1..4 :
                           SameNumber(Numbers(call.pre)[i],
                                      Numbers(call.other)[i]))

\* two atoms found equal whose symbols differ in case and of which only one
\* has been classified
C5_Witness ==
    /\ call.op = "__eq__"
    /\ call.ret = TRUE
    /\ call.pre.elem # call.other.elem
    /\ call.pre.kind # call.other.kind
    /\ call.pre.connectivity # call.other.connectivity
    /\ call.pre.q.n # 0

\* -------------------------------------------------------------- translated
\* C6: translated(dx, dy, dz) returns a new atom with the element and the
\* charge of the receiver and its coordinates plus (dx, dy, dz), and leaves
\* every field of the receiver unchanged; translating the result by
\* (-dx, -dy, -dz) gives the original coordinates.
C6_TranslatedCopies ==
    call.op = "translated" =>
        LET back == translated(call.ret, 0 - call.x1, 0 - call.y1,
                               0 - call.z1).ret
        IN  /\ call.ret.elem = call.pre.elem
            /\ call.ret.q = call.pre.q
            /\ call.ret.x.n = call.pre.x.n + call.x1
            /\ call.ret.y.n = call.pre.y.n + call.y1
            /\ call.ret.z.n = call.pre.z.n + call.z1
            /\ atom = call.pre
            /\ <<back.x, back.y, back.z>>
                   = <<call.pre.x, call.pre.y, call.pre.z>>

\* a classified, charged atom translated along all three axes
C6_Witness ==
    /\ call.op = "translated"
    /\ call.x1 # 0 /\ call.y1 # 0 /\ call.z1 # 0
    /\ call.pre.q.n # 0
    /\ call.pre.kind # NoneVal
    /\ call.ret.x # call.pre.x

\* --------------------------------------------------------------- electrons
\* the (valence, total) pair the table gives for an element symbol
ElectronTable(elem) ==
    IF elem \in {<<"H">>, <<"h">>} THEN <<1, 1>>
    ELSE IF elem \in {<<"C">>, <<"c">>} THEN <<4, 6>>
    ELSE IF elem \in {<<"N">>, <<"n">>} THEN <<5, 7>>
    ELSE IF elem \in {<<"O">>, <<"o">>} THEN <<6, 8>>
    ELSE <<0, 0>>

\* C7: electrons() returns (valence, total) = (1,1), (4,6), (5,7), (6,8) for
\* an element equal, ignoring case, to H, C, N, O and (0,0) for every other
\* element; it changes no field of the atom.
C7_ElectronsTable ==
    call.op = "electrons" =>
        /\ call.ret = ElectronTable(call.pre.elem)
        /\ atom = call.pre

\* the lower-case nitrogen of the example
C7_Witness ==
    /\ call.op = "electrons"
    /\ call.pre.elem = <<"n">>
    /\ call.ret = <<5, 7>>

\* -------------------------------------------------------- set_connectivity
\* the permutations of 1..n
Perms(n) == {f \in [1..n -> 1..n] : \A i, j \in 1..n : f[i] = f[j] => i = j}

\* the list seq reordered by the permutation f
Permuted(seq, f) == [i \in 1..Len(seq) |-> seq[f[i]]]

\* C2: set_connectivity is independent of the peer ordering: a permutation
\* applied to the peer list and to the row alike gives the same kind and the
\* same connectivity.
C2_PeerOrderIrrelevant ==
    call.op = "set_connectivity" =>
        \A f \in Perms(Len(call.in_atoms)) :
            LET other == set_connectivity(call.pre,
                                          Permuted(call.in_atoms, f),
                                          Permuted(call.in_row, f)).self
            IN  /\ other.kind = atom.kind
                /\ other.connectivity = atom.connectivity

\* a classification from a list in which a zero entry precedes a bond and
\* the peers differ, so that a reordering changes the list of links
C2_Witness ==
    /\ call.op = "set_connectivity"
    /\ Len(call.in_atoms) = 3
    /\ call.in_row[1] = 0
    /\ call.in_row[2] # 0
    /\ call.in_row[3] # 0
    /\ call.in_atoms[2].elem # call.in_atoms[3].elem
    /\ atom.kind # NoneVal

\* the positions of the recorded peer list with a nonzero row entry
Bonded == {i \in 1..Len(call.in_atoms) : call.in_row[i] # 0}

\* the (peer element, bond order) pair of position i
PairAt(i) == <<call.in_atoms[i].elem, call.in_row[i]>>

\* one ((element, order), count) entry per distinct pair among the bonded
\* peers, count being the number of bonded peers with that pair
ExpectedConnectivity ==
    {<<PairAt(i), Cardinality({j \in Bonded : PairAt(j) = PairAt(i)})>> :
        i \in Bonded}

\* C3: after set_connectivity, connectivity holds exactly one entry
\* ((peer element, bond order), count) per distinct pair among the peers
\* with a nonzero row entry, with the number of such peers as count, and
\* kind is (element of the atom, connectivity).
C3_ConnectivityCounts ==
    call.op = "set_connectivity" =>
        /\ atom.connectivity = Some(ExpectedConnectivity)
        /\ atom.kind = Some(<<call.pre.elem, ExpectedConnectivity>>)
        /\ atom.elem = call.pre.elem
        /\ \A e \in ExpectedConnectivity : e[1][2] # 0 /\ e[2] > 0

\* two carbons of order 1 and one oxygen of order 2
C3_Witness ==
    /\ call.op = "set_connectivity"
    /\ Len(call.in_atoms) = 3
    /\ \E i \in 1..3 : call.in_atoms[i].elem = O /\ call.in_row[i] = 2
    /\ Cardinality({i \in 1..3 : call.in_atoms[i].elem = C
                                   /\ call.in_row[i] = 1}) = 2
    /\ atom.connectivity = Some({<<<<C, 1>>, 2>>, <<<<O, 2>>, 1>>})

\* ------------------------------------------------------------- constructor
\* the arguments of the recorded construction and the fields they set
CtorFields ==
    <<<<call.xIn, atom.x>>, <<call.yIn, atom.y>>, <<call.zIn, atom.z>>,
      <<call.qIn, atom.q>>>>

\* C4: construction always succeeds: for all x, y, z and charge inputs,
\* also those that cannot be coerced to a number, the constructor raises
\* nothing and every field whose input could not be coerced holds 0.
C4_ConstructionAlwaysSucceeds ==
    call.op = "__init__" =>
        /\ call.exc = "none"
        /\ \A i \in 1..4 : ~float(CtorFields[i][1]).ok => CtorFields[i][2] = FloatInt(0)

\* ------------------------------------------------------------- num_to_elem
\* the element num_to_elem(num) leaves in an atom of element elem
ElementFor(num, elem) ==
    IF num = 1 THEN H
    ELSE IF num = 6 THEN C
    ELSE IF num = 7 THEN <<"N">>
    ELSE IF num = 8 THEN O
    ELSE elem

\* C8: num_to_elem(n) sets element to H, C, N, O for n = 1, 6, 7, 8 and
\* leaves it unchanged for every other n, without raising; x, y, z, charge,
\* num, connectivity and kind are left unchanged.
C8_NumToElemFrame ==
    call.op = "num_to_elem" =>
        /\ atom.elem = ElementFor(call.num, call.pre.elem)
        /\ call.exc = "none"
        /\ atom.x = call.pre.x /\ atom.y = call.pre.y /\ atom.z = call.pre.z
        /\ atom.q = call.pre.q
        /\ atom.num = call.pre.num
        /\ atom.connectivity = call.pre.connectivity
        /\ atom.kind = call.pre.kind

\* a classified atom whose element the last call has replaced by carbon
C8_Witness ==
    /\ call.op = "num_to_elem"
    /\ call.num = 6
    /\ call.pre.elem = <<"n">>
    /\ atom.elem = C
    /\ atom.kind # NoneVal
    /\ atom.x.n # 0
    /\ atom.q.n # 0

\* -------------------------------------------------------------------- kind
\* C9: in every state reached by construction, translate, num_to_elem and
\* set_connectivity calls, kind is None exactly when connectivity is None,
\* and a kind that is not None is (current element, current connectivity).
C9_KindIsElementAndConnectivity ==
    /\ atom.kind = NoneVal <=> atom.connectivity = NoneVal
    /\ atom.kind # NoneVal =>
           atom.kind = Some(<<atom.elem, atom.connectivity[1]>>)

====
